---- MODULE Spec2Model ----
(***************************************************************************)
(* The filter manager of bloomd (src/bloomd/filter_manager.c): the         *)
(* registry of named filter wrappers, the take/return reference protocol,  *)
(* the per-wrapper reader/writer lock, the hot set, the create serializer  *)
(* and startup discovery.  Threads call the exported filtmgr_* functions;  *)
(* every step between two synchronisation points of the C code is one      *)
(* action.                                                                 *)
(***************************************************************************)
EXTENDS Integers, Sequences, FiniteSets, TLC

\* ---------------------------------------------------------------- bounds
NumThreads == 3
NumNames == 1
MaxHandles == 2
MaxCalls == 4
NumKeys == 1
BatchLen == 1
LongBatchLen == 2

Threads == 1..NumThreads
Names == 1..NumNames
Handles == 1..MaxHandles
Keys == 1..NumKeys
NULL == 0

\* the exported operations a request handler may call
Ops == {"check", "set", "flush", "unmap", "drop", "create"}

\* the key batches a caller passes to check and set
Batches == [1..BatchLen -> Keys]
LongBatches == [1..LongBatchLen -> Keys]

VARIABLES
    \* struct bloom_filtmgr
    filter_map,     \* name -> wrapper (NULL when the name has no entry)
    filter_lock,    \* spinlock: the thread holding it, or NULL
    hot_filters,    \* the set of hot filter names
    hot_lock,       \* spinlock: the thread holding it, or NULL
    create_lock,    \* mutex: the thread holding it, or NULL
    \* struct bloom_filter_wrapper, one per allocation
    heap,           \* wrapper -> "unused" | "live" | "freed"
    is_active,      \* wrapper -> BOOLEAN
    ref_count,      \* wrapper -> Int
    rw_readers,     \* wrapper -> set of threads holding rwlock in read mode
    rw_writer,      \* wrapper -> thread holding rwlock in write mode, or NULL
    fstate,         \* wrapper -> state of the underlying bloom_filter
    contents,       \* wrapper -> keys added to the underlying filter
    fname,          \* wrapper -> the name its underlying filter was initialised with
    \* per thread: the call in progress and its locals
    pc, op, filter_name, keys, idx, result, filt, rfilt, delete, res,
    \* process and history
    crashed,        \* the process has died on a NULL dereference
    calls,          \* calls started so far
    took,           \* thread -> its take_filter incremented ref_count
    deletes,        \* wrapper -> delete_filter calls made on it (capped at 2)
    dropped,        \* wrapper -> filtmgr_drop_filter calls that returned 0 on it (capped at 2)
    created,        \* name -> filtmgr_create_filter calls that returned 0 on it (capped at 2)
    doomed,         \* thread -> when its call began the name was absent or dropped, and
                    \*           no create has registered the name since
    acked,          \* name -> the keys a filtmgr_set_keys call has returned 0 for, on a
                    \*         wrapper that no drop has returned 0 on, since the last
                    \*         filtmgr_drop_filter call on the name began
    expect,         \* thread -> the keys that were in acked when its call began, if no
                    \*           filtmgr_drop_filter call on the name has begun since
    \* startup
    boot,           \* "init" while init_filter_manager runs, then "running"
    data_dir,       \* the names of the entries of config->data_dir
    discovered      \* the filter names load_existing_filters registered

mgr == <<filter_map, filter_lock, hot_filters, hot_lock, create_lock>>
wrappers == <<heap, is_active, ref_count, rw_readers, rw_writer, fstate, contents, fname>>
locals == <<pc, op, filter_name, keys, idx, result, filt, rfilt, delete, res>>
startup == <<boot, data_dir, discovered>>
history == <<crashed, calls, took, deletes, dropped, created, acked, startup>>
vars == <<mgr, wrappers, locals, doomed, expect, history>>

\* ----------------------------------------------------------------- startup
\* C strings are sequences of characters; the byte after the last one is NUL.
NUL == "NUL"
CharAt(str, i) == IF i <= Len(str) THEN str[i] ELSE NUL
strlen(str) == Len(str)

\* strncmp(a, b, n) for its zero / non-zero answer: the first n characters
\* are compared, up to and including the first NUL
RECURSIVE strncmp_from(_, _, _, _)
strncmp_from(a, b, i, n) ==
    IF i > n THEN 0
    ELSE IF CharAt(a, i) # CharAt(b, i) THEN 1
    ELSE IF CharAt(a, i) = NUL THEN 0
    ELSE strncmp_from(a, b, i + 1, n)
strncmp(a, b, n) == strncmp_from(a, b, 1, n)

FOLDER_PREFIX == <<"b", "l", "o", "o", "m", "d", ".">>
\* sizeof(FOLDER_PREFIX): the array holds the terminating NUL as well
FOLDER_PREFIX_LEN == Len(FOLDER_PREFIX) + 1

\* the scandir filter: 1 keeps the entry, 0 drops it
filter_bloomd_folders(d_name) ==
    IF strlen(d_name) < 8 THEN 0
    ELSE IF strncmp(d_name, FOLDER_PREFIX, FOLDER_PREFIX_LEN) = 0 THEN 1
    ELSE 0

\* folder_name + FOLDER_PREFIX_LEN
StripPrefix(folder_name) == SubSeq(folder_name, FOLDER_PREFIX_LEN + 1, Len(folder_name))

\* the filter names add_filter is called with, one per entry scandir kept
load_existing_filters(dir) ==
    {StripPrefix(d) : d \in {e \in dir : filter_bloomd_folders(e) = 1}}

\* the directory entries a data directory may hold
DirEntries ==
    { FOLDER_PREFIX \o <<"u">>,
      FOLDER_PREFIX \o <<"v">>,
      FOLDER_PREFIX \o <<"u", "v">>,
      FOLDER_PREFIX,
      <<"b", "l", "o", "o", "m", "d", "_", "u">>,
      <<"o", "t", "h", "e", "r">>,
      <<"o", "t", "h", "e", "r", "d", "i", "r">> }

\* ------------------------------------------------------- memory and filters
\* The registry after init_filter_manager: load_existing_filters has run, and
\* filter_bloomd_folders accepts no directory entry (see Discovery below), so
\* no name has a wrapper.
InitMgr ==
    /\ filter_map = [n \in Names |-> NULL]
    /\ filter_lock = NULL
    /\ hot_filters = {}
    /\ hot_lock = NULL
    /\ create_lock = NULL
    /\ heap = [h \in Handles |-> "unused"]
    /\ is_active = [h \in Handles |-> FALSE]
    /\ ref_count = [h \in Handles |-> 0]
    /\ rw_readers = [h \in Handles |-> {}]
    /\ rw_writer = [h \in Handles |-> NULL]
    /\ fstate = [h \in Handles |-> "none"]
    /\ contents = [h \in Handles |-> {}]
    /\ fname = [h \in Handles |-> NULL]
    /\ pc = [t \in Threads |-> "idle"]
    /\ op = [t \in Threads |-> "none"]
    /\ filter_name = [t \in Threads |-> 1]
    /\ keys = [t \in Threads |-> <<>>]
    /\ idx = [t \in Threads |-> 1]
    /\ result = [t \in Threads |-> <<>>]
    /\ filt = [t \in Threads |-> NULL]
    /\ rfilt = [t \in Threads |-> NULL]
    /\ delete = [t \in Threads |-> FALSE]
    /\ res = [t \in Threads |-> 0]
    /\ crashed = FALSE
    /\ calls = 0
    /\ took = [t \in Threads |-> FALSE]
    /\ deletes = [h \in Handles |-> 0]
    /\ dropped = [h \in Handles |-> 0]
    /\ created = [n \in Names |-> 0]
    /\ doomed = [t \in Threads |-> FALSE]
    /\ acked = [n \in Names |-> {}]
    /\ expect = [t \in Threads |-> {}]

\* Request handlers are admitted once init_filter_manager has returned.
Init ==
    /\ InitMgr
    /\ boot = "running"
    /\ data_dir = {}
    /\ discovered = {}

\* What a read of w->is_active yields.  The first bytes of a freed wrapper
\* belong to the allocator, so a read through a dangling pointer yields either
\* value.
ReadActive(w) == IF heap[w] = "freed" THEN BOOLEAN ELSE {is_active[w]}

\* What an `int delete;` that was never assigned holds when it is read.
Uninitialized == BOOLEAN

Cap2(n) == IF n >= 2 THEN 2 ELSE n + 1

\* The underlying filter (filter.h), as an exact set.  A call on a destroyed
\* filter yields either answer and changes nothing.
bloomf_contains(w, k) == IF heap[w] = "live" THEN {k \in contents[w]} ELSE BOOLEAN
bloomf_add(w, k) == IF heap[w] = "live" THEN {k \notin contents[w]} ELSE BOOLEAN
\* contains/add map the filter back in; close unmaps it; destroy ends it
Reopened(w) == IF heap[w] = "live" THEN [fstate EXCEPT ![w] = "open"] ELSE fstate
bloomf_close(w) == IF heap[w] = "live" THEN [fstate EXCEPT ![w] = "closed"] ELSE fstate

\* wrappers calloc has not handed out yet, and creates that will still ask for one
Unused == {h \in Handles : heap[h] = "unused"}
Allocating == {t \in Threads : pc[t] \in {"cr_mutex", "cr_lock", "cr_get", "add_init"}}

\* a filtmgr_drop_filter call on name n is in progress
Dropping(n) == \E u \in Threads : op[u] = "drop" /\ filter_name[u] = n

\* The call returns r to its caller; its arguments and locals vanish.
Returned(t, r) ==
    /\ pc' = [pc EXCEPT ![t] = "idle"]
    /\ op' = [op EXCEPT ![t] = "none"]
    /\ res' = [res EXCEPT ![t] = 0]
    /\ created' = IF op[t] = "create" /\ r = 0
                  THEN [created EXCEPT ![filter_name[t]] = Cap2(@)] ELSE created
    /\ filt' = [filt EXCEPT ![t] = NULL]
    /\ rfilt' = [rfilt EXCEPT ![t] = NULL]
    /\ delete' = [delete EXCEPT ![t] = FALSE]
    /\ idx' = [idx EXCEPT ![t] = 1]
    /\ keys' = [keys EXCEPT ![t] = <<>>]
    /\ result' = [result EXCEPT ![t] = <<>>]
    /\ took' = [took EXCEPT ![t] = FALSE]
    /\ doomed' = [doomed EXCEPT ![t] = FALSE]
    /\ acked' = IF op[t] = "set" /\ r = 0 /\ ~Dropping(filter_name[t]) /\ dropped[filt[t]] = 0
                THEN [acked EXCEPT ![filter_name[t]] = @ \cup {keys[t][i] : i \in 1..Len(keys[t])}]
                ELSE acked
    /\ expect' = [expect EXCEPT ![t] = {}]

\* ------------------------------------------------------------------- calls
\* No take_filter may resolve name n: it has no entry, or a drop of its
\* wrapper has returned 0.
Gone(n) == filter_map[n] = NULL \/ dropped[filter_map[n]] >= 1

\* A request handler enters one of the exported functions in `ops`; a check or
\* set is given one of `batches`.
CallWith(t, ops, batches) ==
    /\ ~crashed
    /\ boot = "running"
    /\ pc[t] = "idle"
    /\ calls < MaxCalls
    /\ \E o \in ops, n \in Names :
       \E ks \in (IF o \in {"check", "set"} THEN batches ELSE {<<>>}) :
        /\ o = "create" => Cardinality(Unused) > Cardinality(Allocating)
        /\ op' = [op EXCEPT ![t] = o]
        /\ filter_name' = [filter_name EXCEPT ![t] = n]
        /\ doomed' = [doomed EXCEPT ![t] = o # "create" /\ Gone(n)]
        /\ acked' = IF o = "drop" THEN [acked EXCEPT ![n] = {}] ELSE acked
        /\ expect' = [u \in Threads |->
                        IF u = t THEN (IF o \in {"check", "set"} THEN acked[n] ELSE {})
                        ELSE IF o = "drop" /\ filter_name[u] = n THEN {}
                        ELSE expect[u]]
        /\ keys' = [keys EXCEPT ![t] = ks]
        /\ pc' = [pc EXCEPT ![t] = IF o = "create" THEN "cr_mutex" ELSE "take_lock"]
    /\ idx' = [idx EXCEPT ![t] = 1]
    /\ result' = [result EXCEPT ![t] = <<>>]
    /\ res' = [res EXCEPT ![t] = 0]
    /\ took' = [took EXCEPT ![t] = FALSE]
    /\ calls' = calls + 1
    /\ UNCHANGED <<mgr, wrappers, filt, rfilt, delete, crashed, deletes, dropped, created, startup>>

CallOf(t, ops) == CallWith(t, ops, Batches)

Call(t) == CallOf(t, Ops)

\* ------------------------------------------------------------- take_filter
take_filter_lock(t) ==
    /\ ~crashed
    /\ pc[t] = "take_lock"
    /\ filter_lock = NULL
    /\ filter_lock' = t
    /\ pc' = [pc EXCEPT ![t] = "take_get"]
    /\ UNCHANGED <<filter_map, hot_filters, hot_lock, create_lock, wrappers,
                   op, filter_name, doomed, expect, keys, idx, result, filt, rfilt, delete, res, history>>

\* hashmap_get; if (filt && filt->is_active) filt->ref_count++; unlock
take_filter_get(t) ==
    /\ ~crashed
    /\ pc[t] = "take_get"
    /\ LET w == filter_map[filter_name[t]] IN
       \E a \in (IF w = NULL THEN {FALSE} ELSE ReadActive(w)) :
        /\ filt' = [filt EXCEPT ![t] = w]
        /\ ref_count' = IF a /\ heap[w] = "live"
                        THEN [ref_count EXCEPT ![w] = @ + 1] ELSE ref_count
        /\ took' = [took EXCEPT ![t] = a]
    /\ filter_lock' = NULL
    /\ pc' = [pc EXCEPT ![t] = "take_ret"]
    /\ UNCHANGED <<filter_map, hot_filters, hot_lock, create_lock,
                   heap, is_active, rw_readers, rw_writer, fstate, contents, fname,
                   op, filter_name, doomed, expect, keys, idx, result, rfilt, delete, res,
                   crashed, calls, deletes, dropped, created, acked, startup>>

\* return (filt && filt->is_active) ? filt : NULL;  read after the unlock.
\* The caller goes on with the wrapper, or returns -1.
take_filter_ret(t) ==
    /\ ~crashed
    /\ pc[t] = "take_ret"
    /\ \E a \in (IF filt[t] = NULL THEN {FALSE} ELSE ReadActive(filt[t])) :
        IF a
        THEN /\ pc' = [pc EXCEPT ![t] = IF op[t] = "drop" THEN "drop_lock" ELSE "rw_lock"]
             /\ UNCHANGED <<op, res, filt, rfilt, delete, idx, keys, result, took,
                            created, acked, doomed, expect>>
        ELSE Returned(t, -1)
    /\ UNCHANGED <<mgr, wrappers, filter_name, crashed, calls, deletes, dropped, startup>>

\* --------------------------------------------- the locked section of a call
\* a set that takes the rwlock in read mode as well
ReadMode_set_too(o) == o \in {"check", "flush", "set"}

\* check and flush take the rwlock in read mode, set and unmap in write mode
ReadMode(o) == o \in {"check", "flush"}

\* pthread_rwlock_rdlock / pthread_rwlock_wrlock on filt->rwlock
rw_lock(t) ==
    /\ ~crashed
    /\ pc[t] = "rw_lock"
    /\ LET w == filt[t] IN
        /\ rw_writer[w] = NULL
        /\ IF ReadMode(op[t])
           THEN /\ rw_readers' = [rw_readers EXCEPT ![w] = @ \cup {t}]
                /\ UNCHANGED rw_writer
           ELSE /\ rw_readers[w] = {}
                /\ rw_writer' = [rw_writer EXCEPT ![w] = t]
                /\ UNCHANGED rw_readers
    /\ pc' = [pc EXCEPT ![t] = IF op[t] \in {"check", "set"} /\ keys[t] = <<>>
                               THEN "rw_unlock" ELSE "work"]
    /\ UNCHANGED <<mgr, heap, is_active, ref_count, fstate, contents, fname,
                   op, filter_name, doomed, expect, keys, idx, result, filt, rfilt, delete, res, history>>

\* one iteration of  result[i] = bloomf_contains(filt->filter, keys[i])
filtmgr_check_keys_step(t) ==
    /\ ~crashed
    /\ pc[t] = "work" /\ op[t] = "check"
    /\ \E b \in bloomf_contains(filt[t], keys[t][idx[t]]) :
        result' = [result EXCEPT ![t] = Append(@, b)]
    /\ fstate' = Reopened(filt[t])
    /\ idx' = [idx EXCEPT ![t] = @ + 1]
    /\ pc' = [pc EXCEPT ![t] = IF idx[t] < Len(keys[t]) THEN "work" ELSE "rw_unlock"]
    /\ UNCHANGED <<mgr, heap, is_active, ref_count, rw_readers, rw_writer, contents, fname,
                   op, filter_name, doomed, expect, keys, filt, rfilt, delete, res, history>>

\* one iteration of  result[i] = bloomf_add(filt->filter, keys[i])
filtmgr_set_keys_step(t) ==
    /\ ~crashed
    /\ pc[t] = "work" /\ op[t] = "set"
    /\ \E b \in bloomf_add(filt[t], keys[t][idx[t]]) :
        result' = [result EXCEPT ![t] = Append(@, b)]
    /\ contents' = IF heap[filt[t]] = "live"
                   THEN [contents EXCEPT ![filt[t]] = @ \cup {keys[t][idx[t]]}]
                   ELSE contents
    /\ fstate' = Reopened(filt[t])
    /\ idx' = [idx EXCEPT ![t] = @ + 1]
    /\ pc' = [pc EXCEPT ![t] = IF idx[t] < Len(keys[t]) THEN "work" ELSE "rw_unlock"]
    /\ UNCHANGED <<mgr, heap, is_active, ref_count, rw_readers, rw_writer, fname,
                   op, filter_name, doomed, expect, keys, filt, rfilt, delete, res, history>>

\* bloomf_flush(filt->filter): nothing the manager can see changes
filtmgr_flush_filter_flush(t) ==
    /\ ~crashed
    /\ pc[t] = "work" /\ op[t] = "flush"
    /\ pc' = [pc EXCEPT ![t] = "rw_unlock"]
    /\ UNCHANGED <<mgr, wrappers, op, filter_name, doomed, expect, keys, idx, result, filt, rfilt,
                   delete, res, history>>

\* bloomf_close(filt->filter)
filtmgr_unmap_filter_close(t) ==
    /\ ~crashed
    /\ pc[t] = "work" /\ op[t] = "unmap"
    /\ fstate' = bloomf_close(filt[t])
    /\ pc' = [pc EXCEPT ![t] = "rw_unlock"]
    /\ UNCHANGED <<mgr, heap, is_active, ref_count, rw_readers, rw_writer, contents, fname,
                   op, filter_name, doomed, expect, keys, idx, result, filt, rfilt, delete, res, history>>

\* a call that goes on to add_hot_filter / return_filter with the rwlock
\* still held
rw_unlock_forgotten(t) ==
    /\ ~crashed
    /\ pc[t] = "rw_unlock"
    /\ pc' = [pc EXCEPT ![t] = IF op[t] = "unmap" THEN "ret_lock" ELSE "hot_lock"]
    /\ UNCHANGED <<mgr, wrappers,
                   op, filter_name, doomed, expect, keys, idx, result, filt, rfilt, delete, res, history>>

\* pthread_rwlock_unlock(&filt->rwlock); unmap does not mark the filter hot
rw_unlock(t) ==
    /\ ~crashed
    /\ pc[t] = "rw_unlock"
    /\ rw_readers' = [rw_readers EXCEPT ![filt[t]] = @ \ {t}]
    /\ rw_writer' = [rw_writer EXCEPT ![filt[t]] = IF @ = t THEN NULL ELSE @]
    /\ pc' = [pc EXCEPT ![t] = IF op[t] = "unmap" THEN "ret_lock" ELSE "hot_lock"]
    /\ UNCHANGED <<mgr, heap, is_active, ref_count, fstate, contents, fname,
                   op, filter_name, doomed, expect, keys, idx, result, filt, rfilt, delete, res, history>>

\* ---------------------------------------------------------- add_hot_filter
add_hot_filter_lock(t) ==
    /\ ~crashed
    /\ pc[t] = "hot_lock"
    /\ hot_lock = NULL
    /\ hot_lock' = t
    /\ pc' = [pc EXCEPT ![t] = "hot_put"]
    /\ UNCHANGED <<filter_map, filter_lock, hot_filters, create_lock, wrappers,
                   op, filter_name, doomed, expect, keys, idx, result, filt, rfilt, delete, res, history>>

\* an add_hot_filter that takes and releases the hot lock but puts nothing
add_hot_filter_put_nothing(t) ==
    /\ ~crashed
    /\ pc[t] = "hot_put"
    /\ hot_lock' = NULL
    /\ pc' = [pc EXCEPT ![t] = "ret_lock"]
    /\ UNCHANGED <<filter_map, filter_lock, hot_filters, create_lock, wrappers,
                   op, filter_name, doomed, expect, keys, idx, result, filt, rfilt, delete, res, history>>

\* hashmap_put(mgr->hot_filters, filter_name, NULL); unlock
add_hot_filter_put(t) ==
    /\ ~crashed
    /\ pc[t] = "hot_put"
    /\ hot_filters' = hot_filters \cup {filter_name[t]}
    /\ hot_lock' = NULL
    /\ pc' = [pc EXCEPT ![t] = "ret_lock"]
    /\ UNCHANGED <<filter_map, filter_lock, create_lock, wrappers,
                   op, filter_name, doomed, expect, keys, idx, result, filt, rfilt, delete, res, history>>

\* ------------------------------------------------------ filtmgr_drop_filter
filtmgr_drop_filter_lock(t) ==
    /\ ~crashed
    /\ pc[t] = "drop_lock"
    /\ filter_lock = NULL
    /\ filter_lock' = t
    /\ pc' = [pc EXCEPT ![t] = "drop_dec"]
    /\ UNCHANGED <<filter_map, hot_filters, hot_lock, create_lock, wrappers,
                   op, filter_name, doomed, expect, keys, idx, result, filt, rfilt, delete, res, history>>

\* filt->ref_count--; filt->is_active = 0; unlock
filtmgr_drop_filter_dec(t) ==
    /\ ~crashed
    /\ pc[t] = "drop_dec"
    /\ IF heap[filt[t]] = "live"
       THEN /\ ref_count' = [ref_count EXCEPT ![filt[t]] = @ - 1]
            /\ is_active' = [is_active EXCEPT ![filt[t]] = FALSE]
       ELSE UNCHANGED <<ref_count, is_active>>
    /\ filter_lock' = NULL
    /\ pc' = [pc EXCEPT ![t] = "ret_lock"]
    /\ UNCHANGED <<filter_map, hot_filters, hot_lock, create_lock,
                   heap, rw_readers, rw_writer, fstate, contents, fname,
                   op, filter_name, doomed, expect, keys, idx, result, filt, rfilt, delete, res, history>>

\* ----------------------------------------------------------- return_filter
return_filter_lock(t) ==
    /\ ~crashed
    /\ pc[t] = "ret_lock"
    /\ filter_lock = NULL
    /\ filter_lock' = t
    /\ pc' = [pc EXCEPT ![t] = "ret_get"]
    /\ UNCHANGED <<filter_map, hot_filters, hot_lock, create_lock, wrappers,
                   op, filter_name, doomed, expect, keys, idx, result, filt, rfilt, delete, res, history>>

\* if (ref_count <= 0): the reference just given back was the last one
LastReference(rc) == rc <= 0

\* hashmap_get; if (filt) { --ref_count; if (ref_count <= 0) { hashmap_delete;
\* delete = 1; } }; unlock.  `delete` is assigned on that one path only; on
\* the others it keeps whatever its stack slot held.  The counter of a freed
\* wrapper is allocator data, so the comparison may go either way.
return_filter_get(t) ==
    /\ ~crashed
    /\ pc[t] = "ret_get"
    /\ LET n == filter_name[t]
           w == filter_map[n]
       IN /\ rfilt' = [rfilt EXCEPT ![t] = w]
          /\ ref_count' = IF w # NULL /\ heap[w] = "live"
                          THEN [ref_count EXCEPT ![w] = @ - 1] ELSE ref_count
          /\ \E last \in (IF w = NULL THEN {FALSE}
                          ELSE IF heap[w] = "live" THEN {LastReference(ref_count[w] - 1)}
                          ELSE BOOLEAN) :
                IF last
                THEN /\ filter_map' = [filter_map EXCEPT ![n] = NULL]
                     /\ delete' = [delete EXCEPT ![t] = TRUE]
                ELSE /\ UNCHANGED filter_map
                     /\ \E d \in Uninitialized : delete' = [delete EXCEPT ![t] = d]
    /\ filter_lock' = NULL
    /\ pc' = [pc EXCEPT ![t] = "ret_del"]
    /\ UNCHANGED <<hot_filters, hot_lock, create_lock,
                   heap, is_active, rw_readers, rw_writer, fstate, contents, fname,
                   op, filter_name, doomed, expect, keys, idx, result, filt, res, history>>

\* delete_filter(mgr, w): bloomf_close, destroy_bloom_filter, free.  On NULL
\* the first dereference kills the process; on a wrapper that is already freed
\* the second free either aborts the process or goes unnoticed.
delete_filter(w) ==
    IF w = NULL
    THEN /\ crashed' = TRUE
         /\ UNCHANGED <<heap, fstate, deletes>>
    ELSE /\ heap' = [heap EXCEPT ![w] = "freed"]
         /\ fstate' = [fstate EXCEPT ![w] = "destroyed"]
         /\ deletes' = [deletes EXCEPT ![w] = Cap2(@)]
         /\ IF heap[w] = "freed" THEN crashed' \in BOOLEAN ELSE crashed' = crashed

\* if (delete) delete_filter(mgr, filt);  then the caller returns 0
return_filter_del(t) ==
    /\ ~crashed
    /\ pc[t] = "ret_del"
    /\ IF delete[t]
       THEN delete_filter(rfilt[t])
       ELSE UNCHANGED <<heap, fstate, deletes, crashed>>
    /\ IF crashed'
       THEN UNCHANGED <<locals, took, dropped, created, acked, doomed, expect>>
       ELSE /\ Returned(t, 0)
            /\ dropped' = IF op[t] = "drop"
                          THEN [dropped EXCEPT ![filt[t]] = Cap2(@)] ELSE dropped
            /\ UNCHANGED filter_name
    /\ UNCHANGED <<mgr, is_active, ref_count, rw_readers, rw_writer, contents, fname, calls, startup>>

\* ---------------------------------------------------- filtmgr_create_filter
\* a create that does not wait for the create serializer
filtmgr_create_filter_unserialized(t) ==
    /\ ~crashed
    /\ pc[t] = "cr_mutex"
    /\ create_lock' = t
    /\ pc' = [pc EXCEPT ![t] = "cr_lock"]
    /\ UNCHANGED <<filter_map, filter_lock, hot_filters, hot_lock, wrappers,
                   op, filter_name, doomed, expect, keys, idx, result, filt, rfilt, delete, res, history>>

\* pthread_mutex_lock(&mgr->create_lock)
filtmgr_create_filter_mutex(t) ==
    /\ ~crashed
    /\ pc[t] = "cr_mutex"
    /\ create_lock = NULL
    /\ create_lock' = t
    /\ pc' = [pc EXCEPT ![t] = "cr_lock"]
    /\ UNCHANGED <<filter_map, filter_lock, hot_filters, hot_lock, wrappers,
                   op, filter_name, doomed, expect, keys, idx, result, filt, rfilt, delete, res, history>>

filtmgr_create_filter_lock(t) ==
    /\ ~crashed
    /\ pc[t] = "cr_lock"
    /\ filter_lock = NULL
    /\ filter_lock' = t
    /\ pc' = [pc EXCEPT ![t] = "cr_get"]
    /\ UNCHANGED <<filter_map, hot_filters, hot_lock, create_lock, wrappers,
                   op, filter_name, doomed, expect, keys, idx, result, filt, rfilt, delete, res, history>>

\* hashmap_get; unlock; if (!filt) add_filter(...) else res = -1
filtmgr_create_filter_get(t) ==
    /\ ~crashed
    /\ pc[t] = "cr_get"
    /\ LET w == filter_map[filter_name[t]] IN
        /\ filt' = [filt EXCEPT ![t] = w]
        /\ pc' = [pc EXCEPT ![t] = IF w = NULL THEN "add_init" ELSE "cr_unlock"]
        /\ res' = [res EXCEPT ![t] = IF w = NULL THEN 0 ELSE -1]
    /\ filter_lock' = NULL
    /\ UNCHANGED <<filter_map, hot_filters, hot_lock, create_lock, wrappers,
                   op, filter_name, doomed, expect, keys, idx, result, rfilt, delete, history>>

\* add_filter: calloc, ref_count = 1, is_active = 1, rwlock init, and
\* init_bloom_filter returns 0
add_filter_init(t) ==
    /\ ~crashed
    /\ pc[t] = "add_init"
    /\ Unused # {}
    /\ LET w == CHOOSE h \in Unused : \A g \in Unused : h <= g IN
        /\ heap' = [heap EXCEPT ![w] = "live"]
        /\ ref_count' = [ref_count EXCEPT ![w] = 1]
        /\ is_active' = [is_active EXCEPT ![w] = TRUE]
        /\ rw_readers' = [rw_readers EXCEPT ![w] = {}]
        /\ rw_writer' = [rw_writer EXCEPT ![w] = NULL]
        /\ fstate' = [fstate EXCEPT ![w] = "open"]
        /\ contents' = [contents EXCEPT ![w] = {}]
        /\ fname' = [fname EXCEPT ![w] = filter_name[t]]
        /\ filt' = [filt EXCEPT ![t] = w]
    /\ pc' = [pc EXCEPT ![t] = "add_lock"]
    /\ UNCHANGED <<mgr, op, filter_name, doomed, expect, keys, idx, result, rfilt, delete, res, history>>

\* add_filter: init_bloom_filter fails; the wrapper is freed again, unseen by
\* any other thread, and add_filter returns -1
add_filter_init_fails(t) ==
    /\ ~crashed
    /\ pc[t] = "add_init"
    /\ res' = [res EXCEPT ![t] = -1]
    /\ pc' = [pc EXCEPT ![t] = "cr_unlock"]
    /\ UNCHANGED <<mgr, wrappers, op, filter_name, doomed, expect, keys, idx, result, filt, rfilt,
                   delete, history>>

add_filter_lock(t) ==
    /\ ~crashed
    /\ pc[t] = "add_lock"
    /\ filter_lock = NULL
    /\ filter_lock' = t
    /\ pc' = [pc EXCEPT ![t] = "add_put"]
    /\ UNCHANGED <<filter_map, hot_filters, hot_lock, create_lock, wrappers,
                   op, filter_name, doomed, expect, keys, idx, result, filt, rfilt, delete, res, history>>

\* hashmap_put(mgr->filter_map, filter_name, filt); unlock; return 0
add_filter_put(t) ==
    /\ ~crashed
    /\ pc[t] = "add_put"
    /\ filter_map' = [filter_map EXCEPT ![filter_name[t]] = filt[t]]
    /\ filter_lock' = NULL
    /\ pc' = [pc EXCEPT ![t] = "cr_unlock"]
    /\ doomed' = [u \in Threads |-> doomed[u] /\ filter_name[u] # filter_name[t]]
    /\ UNCHANGED <<expect, hot_filters, hot_lock, create_lock, wrappers,
                   op, filter_name, keys, idx, result, filt, rfilt, delete, res, history>>

\* a create that returns its failure without releasing the create serializer
filtmgr_create_filter_unlock_skipped(t) ==
    /\ ~crashed
    /\ pc[t] = "cr_unlock"
    /\ create_lock' = IF res[t] = 0 THEN NULL ELSE create_lock
    /\ Returned(t, res[t])
    /\ UNCHANGED <<filter_map, filter_lock, hot_filters, hot_lock, wrappers,
                   filter_name, crashed, calls, deletes, dropped, startup>>

\* pthread_mutex_unlock(&mgr->create_lock); return res
filtmgr_create_filter_unlock(t) ==
    /\ ~crashed
    /\ pc[t] = "cr_unlock"
    /\ create_lock' = NULL
    /\ Returned(t, res[t])
    /\ UNCHANGED <<filter_map, filter_lock, hot_filters, hot_lock, wrappers,
                   filter_name, crashed, calls, deletes, dropped, startup>>

\* ----------------------------------------------------------- specification
Step(t) ==
    \/ Call(t)
    \/ take_filter_lock(t)
    \/ take_filter_get(t)
    \/ take_filter_ret(t)
    \/ rw_lock(t)
    \/ filtmgr_check_keys_step(t)
    \/ filtmgr_set_keys_step(t)
    \/ filtmgr_flush_filter_flush(t)
    \/ filtmgr_unmap_filter_close(t)
    \/ rw_unlock(t)
    \/ add_hot_filter_lock(t)
    \/ add_hot_filter_put(t)
    \/ filtmgr_drop_filter_lock(t)
    \/ filtmgr_drop_filter_dec(t)
    \/ return_filter_lock(t)
    \/ return_filter_get(t)
    \/ return_filter_del(t)
    \/ filtmgr_create_filter_mutex(t)
    \/ filtmgr_create_filter_lock(t)
    \/ filtmgr_create_filter_get(t)
    \/ add_filter_init(t)
    \/ add_filter_init_fails(t)
    \/ add_filter_lock(t)
    \/ add_filter_put(t)
    \/ filtmgr_create_filter_unlock(t)

Next == \E t \in Threads : Step(t)

Spec == Init /\ [][Next]_vars

\* init_filter_manager: the locks and the two maps are set up, then
\* load_existing_filters registers what it finds in the data directory.
init_filter_manager ==
    /\ boot = "init"
    /\ discovered' = load_existing_filters(data_dir)
    /\ boot' = "running"
    /\ UNCHANGED <<mgr, wrappers, locals, doomed, expect, crashed, calls, took, deletes, dropped,
                   created, acked, data_dir>>

\* Construction of a manager over any data directory.
InitDiscovery ==
    /\ InitMgr
    /\ boot = "init"
    /\ data_dir \in SUBSET DirEntries
    /\ discovered = {}

NextDiscovery == init_filter_manager

SpecDiscovery == InitDiscovery /\ [][NextDiscovery]_vars

\* Request handlers that only create filters, on a disk that does not fail.
CreateStep(t) ==
    \/ CallOf(t, {"create"})
    \/ filtmgr_create_filter_mutex(t)
    \/ filtmgr_create_filter_lock(t)
    \/ filtmgr_create_filter_get(t)
    \/ add_filter_init(t)
    \/ add_filter_lock(t)
    \/ add_filter_put(t)
    \/ filtmgr_create_filter_unlock(t)

NextCreate == \E t \in Threads : CreateStep(t)

SpecCreate == Init /\ [][NextCreate]_vars

\* Request handlers that never drop a filter; check and set are given
\* batches of LongBatchLen keys.
NoDropStep(t) ==
    \/ CallWith(t, Ops \ {"drop"}, LongBatches)
    \/ take_filter_lock(t)
    \/ take_filter_get(t)
    \/ take_filter_ret(t)
    \/ rw_lock(t)
    \/ filtmgr_check_keys_step(t)
    \/ filtmgr_set_keys_step(t)
    \/ filtmgr_flush_filter_flush(t)
    \/ filtmgr_unmap_filter_close(t)
    \/ rw_unlock(t)
    \/ add_hot_filter_lock(t)
    \/ add_hot_filter_put(t)
    \/ return_filter_lock(t)
    \/ return_filter_get(t)
    \/ return_filter_del(t)
    \/ filtmgr_create_filter_mutex(t)
    \/ filtmgr_create_filter_lock(t)
    \/ filtmgr_create_filter_get(t)
    \/ add_filter_init(t)
    \/ add_filter_init_fails(t)
    \/ add_filter_lock(t)
    \/ add_filter_put(t)
    \/ filtmgr_create_filter_unlock(t)

NextNoDrop == \E t \in Threads : NoDropStep(t)

SpecNoDrop == Init /\ [][NextNoDrop]_vars

\* ------------------------------------------------------------------ claims
\* Thread t is between its take_filter, which handed it wrapper w, and the
\* decrement of the return_filter that ends its call.
Holding(t, w) ==
    /\ filt[t] = w
    /\ pc[t] \in {"rw_lock", "work", "rw_unlock", "hot_lock", "hot_put",
                  "drop_lock", "drop_dec", "ret_lock", "ret_get"}

HoldsRwlock(t, w) == t \in rw_readers[w] \/ rw_writer[w] = t

Quiescent == \A t \in Threads : pc[t] = "idle"

Registered(w) == \E n \in Names : filter_map[n] = w

\* C1: no wrapper is destroyed (delete_filter) while a thread is between its
\* take_filter and its return_filter on it; so every thread inside the locked
\* section, and every thread holding the rwlock, works on a live wrapper.
C1_NoDestroyWhileHeld ==
    \A t \in Threads, w \in Handles :
        (Holding(t, w) \/ HoldsRwlock(t, w)) => heap[w] # "freed"

\* C2: once a drop of a wrapper has returned 0 and no call is in progress,
\* the wrapper is out of the registry and delete_filter ran on it exactly once.
C2_DroppedIsDestroyedOnce ==
    (Quiescent /\ ~crashed) =>
        \A w \in Handles :
            dropped[w] >= 1 => (~Registered(w) /\ deletes[w] = 1)

\* C4: while the registry lock is free, every wrapper in the registry has
\* ref_count >= 1 (a wrapper whose ref_count is not positive is not in it).
C4_RegisteredHasReference ==
    filter_lock = NULL =>
        \A n \in Names :
            (filter_map[n] # NULL /\ heap[filter_map[n]] = "live")
                => ref_count[filter_map[n]] >= 1

\* C5: no wrapper's ref_count is ever below zero.
C5_RefCountNotNegative ==
    \A w \in Handles : heap[w] = "live" => ref_count[w] >= 0

\* C3: of the create calls racing for an absent name exactly one returns 0:
\* a create returns 0 iff no create of the name returned 0 before, every other
\* one returns -1 with the name already registered, and when any of them
\* returns the registry holds one live wrapper for the name with
\* ref_count = 1 and is_active set.
C3_OneCreateWins ==
    [][\A t \in Threads :
        (pc[t] = "cr_unlock" /\ pc'[t] = "idle") =>
            LET n == filter_name[t]
                w == filter_map'[n]
            IN /\ w # NULL
               /\ res[t] = 0 <=> created[n] = 0
               /\ created'[n] = 1
               /\ heap'[w] = "live"
               /\ ref_count'[w] = 1
               /\ is_active'[w]]_vars

\* a create is about to return "already exists" after another one has
\* returned 0, while a third still waits for the create serializer
C3_Witness ==
    \E t, u \in Threads :
        /\ pc[t] = "cr_unlock" /\ res[t] = -1
        /\ created[filter_name[t]] = 1
        /\ pc[u] = "cr_mutex" /\ filter_name[u] = filter_name[t]

\* C6: a check, set, flush, unmap or drop that starts on a name that is absent
\* or whose drop has returned 0 never gets past take_filter (it returns -1)
\* and increments no ref_count, until a create registers the name again.
C6_GoneNameFails ==
    \A t \in Threads :
        doomed[t] => (pc[t] \in {"take_lock", "take_get", "take_ret"} /\ ~took[t])

\* the thread whose step this is
Acts(t) == pc'[t] # pc[t] \/ idx'[t] # idx[t]

InBatch(u, w) ==
    /\ op[u] \in {"check", "set"}
    /\ filt[u] = w
    /\ pc[u] \in {"work", "rw_unlock"}

\* C7: drop never takes the wrapper's rwlock, and a drop that runs while a
\* check or set batch is inside its locked section does not destroy the
\* wrapper: that is left to the return_filter that follows the batch.
C7_DropLeavesBatchAlone ==
    [][\A t \in Threads :
        (op[t] = "drop" /\ Acts(t)) =>
            /\ pc'[t] # "rw_lock"
            /\ \A w \in Handles :
                (heap[w] = "live" /\ heap'[w] = "freed")
                    => ~\E u \in Threads \ {t} : InBatch(u, w)]_vars

\* no drop of wrapper w has returned 0 or is in progress
NoDrop(w) == dropped[w] = 0 /\ \A u \in Threads : op[u] # "drop"

\* C9: an unmap that overlaps no drop changes neither the registry nor the
\* hot set, and when it returns 0 its wrapper is still registered under the
\* name, alive and active, with ref_count back to 1 if no other call is in
\* progress (so a later check or set resolves it).
C9_UnmapFrame ==
    [][\A t \in Threads :
        (op[t] = "unmap" /\ Acts(t) /\ filt[t] # NULL /\ NoDrop(filt[t])) =>
            /\ hot_filters' = hot_filters
            /\ filter_map' = filter_map
            /\ (pc[t] = "ret_del" /\ pc'[t] = "idle") =>
                /\ filter_map'[filter_name[t]] = filt[t]
                /\ heap'[filt[t]] = "live"
                /\ is_active'[filt[t]]
                /\ (\A u \in Threads \ {t} : pc[u] = "idle")
                        => ref_count'[filt[t]] = 1]_vars

\* the primitives thread t holds, and the one its next step acquires
HoldsCreate(t) == create_lock = t
HoldsRegistry(t) == filter_lock = t
HoldsHandle(t) == \E w \in Handles : HoldsRwlock(t, w)
HoldsHot(t) == hot_lock = t
WantsCreate(t) == pc[t] = "cr_mutex"
WantsRegistry(t) == pc[t] \in {"take_lock", "drop_lock", "ret_lock", "cr_lock", "add_lock"}
WantsHandle(t) == pc[t] = "rw_lock"
WantsHot(t) == pc[t] = "hot_lock"
\* the next step of thread t calls into the underlying filter
CallsFilter(t) == pc[t] \in {"work", "add_init"} \/ (pc[t] = "ret_del" /\ delete[t])

\* C10: locks are acquired in the order create serializer, registry lock,
\* handle rwlock, hot lock; no underlying-filter call is made with the
\* registry lock held; and while the process is alive and a call is in
\* progress, some thread that is inside a call can take a step.
C10_LockOrderNoDeadlock ==
    /\ \A t \in Threads :
        /\ HoldsRegistry(t) => ~WantsCreate(t)
        /\ HoldsHandle(t) => ~(WantsCreate(t) \/ WantsRegistry(t))
        /\ HoldsHot(t) => ~(WantsCreate(t) \/ WantsRegistry(t) \/ WantsHandle(t))
        /\ HoldsRegistry(t) => ~CallsFilter(t)
    /\ (~crashed /\ ~Quiescent) => \E t \in Threads : pc[t] # "idle" /\ ENABLED Step(t)

\* a set batch holds the rwlock in write mode while a check waits for it and
\* a drop of the same wrapper is inside the registry lock
C10_Witness ==
    \E t, u, v \in Threads :
        /\ op[t] = "set" /\ pc[t] = "work" /\ rw_writer[filt[t]] = t
        /\ op[u] = "check" /\ pc[u] = "rw_lock" /\ filt[u] = filt[t]
        /\ op[v] = "drop" /\ pc[v] = "drop_dec" /\ filt[v] = filt[t] /\ filter_lock = v

\* C8: discovery registers exactly one filter for every entry of the data
\* directory that is "bloomd." followed by a filter name and at least 8
\* characters long, under the name left after stripping these 7 characters,
\* and nothing else.
C8_DiscoveryRegistersFolders ==
    boot = "running" =>
        discovered = {SubSeq(d, 8, Len(d)) :
                        d \in {e \in data_dir :
                                Len(e) >= 8 /\ SubSeq(e, 1, 7) = FOLDER_PREFIX}}

\* what a failing create must leave alone: the registry, the hot set, and the
\* ref_count, is_active and existence of every wrapper
CreateFrame ==
    /\ filter_map' = filter_map
    /\ hot_filters' = hot_filters
    /\ ref_count' = ref_count
    /\ is_active' = is_active
    /\ heap' = heap

\* C11: a create that finds its name in the registry (its wrapper active or
\* not), or whose init_bloom_filter fails, returns -1 with the create
\* serializer released, and none of its steps changes the registry, the hot
\* set or any wrapper's ref_count and is_active.
C11_FailedCreateFrame ==
    [][\A t \in Threads :
        (op[t] = "create" /\ Acts(t)) =>
            /\ (pc[t] = "cr_get" /\ filter_map[filter_name[t]] # NULL)
                    => (res'[t] = -1 /\ pc'[t] = "cr_unlock")
            /\ (pc[t] = "add_init" /\ pc'[t] # "add_lock")
                    => (res'[t] = -1 /\ pc'[t] = "cr_unlock")
            /\ (pc[t] \in {"cr_mutex", "cr_lock", "cr_get"} \/ res[t] = -1 \/ res'[t] = -1)
                    => CreateFrame
            /\ (pc[t] = "cr_unlock" /\ res[t] = -1)
                    => (pc'[t] = "idle" /\ create_lock' = NULL)]_vars

\* a create is about to return -1 because its name is still registered, with
\* a wrapper that was dropped and awaits its last return_filter
C11_Witness ==
    \E t \in Threads :
        /\ op[t] = "create" /\ pc[t] = "cr_unlock" /\ res[t] = -1
        /\ filt[t] # NULL /\ heap[filt[t]] = "live" /\ ~is_active[filt[t]]
        /\ filter_map[filter_name[t]] = filt[t]
        /\ dropped[filt[t]] = 1

\* a drop that resolved to wrapper w has returned 0, or has got w from
\* take_filter and is on its way to returning 0
DropOf(w) ==
    \/ dropped[w] >= 1
    \/ \E u \in Threads :
        /\ op[u] = "drop" /\ filt[u] = w
        /\ pc[u] \in {"drop_lock", "drop_dec", "ret_lock", "ret_get", "ret_del"}

\* C12: between two successful creates of one name there is a successful drop
\* of it: when add_filter has built a second wrapper for a name (wrappers are
\* handed out in increasing order), a drop of the earlier one has succeeded.
C12_DropBetweenCreates ==
    \A v, w \in Handles :
        (v < w /\ heap[v] # "unused" /\ heap[w] # "unused" /\ fname[v] = fname[w])
            => DropOf(v)

\* the calls that mark their filter hot
MarksHot(o) == o \in {"check", "set", "flush"}

\* C13: a check, set or flush that gets its wrapper puts its filter name into
\* the hot set after it has released the rwlock and before its return_filter,
\* so the name is hot when the call returns 0; no other step changes the hot
\* set (not a failing call, not unmap, drop or create), nothing is ever removed
\* from it, and marking a name that is already hot leaves it as it was.
C13_HotSetMarking ==
    [][/\ hot_filters \subseteq hot_filters'
       /\ \A t \in Threads :
            Acts(t) =>
                /\ hot_filters' # hot_filters
                        => (MarksHot(op[t]) /\ pc[t] = "hot_put")
                /\ pc[t] = "hot_put"
                        => /\ hot_filters' = hot_filters \cup {filter_name[t]}
                           /\ ~HoldsRwlock(t, filt[t])
                           /\ pc'[t] = "ret_lock"
                /\ (MarksHot(op[t]) /\ pc[t] = "rw_unlock") => pc'[t] = "hot_lock"
                /\ (MarksHot(op[t]) /\ pc[t] \in {"ret_lock", "ret_get", "ret_del"})
                        => filter_name[t] \in hot_filters
                /\ (~MarksHot(op[t]) \/ (pc[t] = "take_ret" /\ pc'[t] = "idle"))
                        => hot_filters' = hot_filters]_vars

\* a check, set or flush holds the hot lock and is about to mark a name that
\* an earlier call has already made hot
C13_Witness ==
    \E t \in Threads :
        /\ MarksHot(op[t]) /\ pc[t] = "hot_put" /\ hot_lock = t
        /\ filter_name[t] \in hot_filters

\* thread t is inside the locked section of its call on wrapper w: between
\* the acquire of w's rwlock and its release
Inside(t, w) == filt[t] = w /\ pc[t] \in {"work", "rw_unlock"}

\* thread t is held up at the rwlock of its wrapper
Conflict(t) ==
    \E u \in Threads \ {t} :
        /\ Inside(u, filt[t])
        /\ op[t] \in {"set", "unmap"} \/ op[u] \in {"set", "unmap"}

C15_SetThenCheck ==
    [][\A t \in Threads :
        (op[t] \in {"check", "set"} /\ pc'[t] = "idle" /\ pc[t] # "idle") =>
            /\ pc[t] = "take_ret" => expect[t] = {}
            /\ pc[t] = "ret_del" =>
                \A i \in 1..Len(keys[t]) :
                    keys[t][i] \in expect[t] => result[t][i] = (op[t] = "check")]_vars

\* C16: a take_filter call hands the wrapper to its caller if and only if
\* that same call incremented the wrapper's ref_count under the registry
\* lock; it never increments and then returns NULL.
C16_TakeAtomic ==
    [][\A t \in Threads :
        (pc[t] = "take_ret" /\ Acts(t)) => (pc'[t] # "idle" <=> took[t])]_vars

\* C17: return_filter destroys a wrapper if and only if that same call found
\* the name in the registry, decremented the wrapper's ref_count to a value
\* <= 0 and removed the name; when the count stays positive or the name is
\* not found, it calls no delete_filter.
C17_ReturnDestroysIffLast ==
    [][\A t \in Threads :
        /\ (pc[t] = "ret_get" /\ Acts(t)) =>
            LET n == filter_name[t]
                w == filter_map[n]
            IN delete'[t] <=>
                /\ w # NULL
                /\ filter_map'[n] = NULL
                /\ heap[w] = "live" => ref_count'[w] <= 0
        /\ (pc[t] = "ret_del" /\ (Acts(t) \/ crashed' # crashed)) =>
            ((heap' # heap \/ deletes' # deletes \/ crashed' # crashed) => delete[t])]_vars

\* C18: a wrapper leaves the registry, and is destroyed, only if a drop that
\* resolved to that very wrapper succeeds; and the return_filter of a call
\* never resolves its name to a wrapper other than the one its take_filter
\* handed out, so it never decrements, unlinks or destroys a wrapper created
\* later under the name.
C18_OnlyDroppedHandleGoes ==
    [][/\ \A w \in Handles :
            ((Registered(w) /\ ~Registered(w)') \/ (heap[w] = "live" /\ heap'[w] = "freed"))
                => DropOf(w)
       /\ \A t \in Threads :
            (pc[t] = "ret_get" /\ Acts(t) /\ filter_map[filter_name[t]] # NULL)
                => filter_map[filter_name[t]] = filt[t]]_vars

\* C19: over the life of a wrapper at most one drop returns 0 on it, and the
\* extra decrement drop makes is applied at most once: a drop that decrements
\* finds the wrapper still active, and no second drop returns 0.
C19_OneDropPerHandle ==
    [][\A t \in Threads :
        (op[t] = "drop" /\ Acts(t)) =>
            /\ (pc[t] = "drop_dec" /\ heap[filt[t]] = "live") => is_active[filt[t]]
            /\ (pc[t] = "ret_del" /\ pc'[t] = "idle") => dropped[filt[t]] = 0]_vars

\* the threads whose take_filter incremented w's ref_count and whose
\* return_filter has not yet decremented it
Referrers(w) ==
    {t \in Threads :
        /\ took[t] /\ filt[t] = w
        /\ pc[t] \in {"take_ret", "rw_lock", "work", "rw_unlock", "hot_lock", "hot_put",
                      "drop_lock", "drop_dec", "ret_lock", "ret_get"}}

\* C20: while the registry lock is free, every registered wrapper that no
\* drop has touched is alive with ref_count = 1 + the number of threads
\* between their take_filter and their return_filter on it; so with no call
\* in progress its ref_count is 1.
C20_RefCountBalance ==
    filter_lock = NULL =>
        \A n \in Names :
            LET w == filter_map[n] IN
            (w # NULL /\ ~DropOf(w)) =>
                /\ heap[w] = "live"
                /\ is_active[w]
                /\ ref_count[w] = 1 + Cardinality(Referrers(w))

====
